---- MODULE Spec2Model ----
(***************************************************************************)
(* A model of core/jni/android/graphics/BitmapRegionDecoder.cpp: the       *)
(* construction entry points, createBitmapRegionDecoder, the               *)
(* SkBitmapRegionDecoder handle, and nativeDecodeRegion split at the       *)
(* statements where another thread can observe or change shared state      *)
(* (the backend's settings, the cancellation registry, the Options         *)
(* object).                                                                *)
(***************************************************************************)
EXTENDS Integers, FiniteSets, Sequences, TLC

\* ---------------------------------------------------------------- bounds
\* Largest image / buffer dimension.
MaxDim == 3
\* Number of nativeDecodeRegion calls the callers make.
MaxCalls == 2

\* ------------------------------------------------------------- constants
\* The null reference (jobject NULL, a null options / tileBitmap).
NULL == 0
\* int sampleSize = 1;
DefaultSampleSize == 1
\* env->SetIntField(options, gOptions_widthFieldID, -1);
UnsetDim == -1

\* Two caller threads; one encoded stream is handed to the construction
\* entry points, so there is at most one handle, and the decode calls that
\* pass options share one BitmapFactory.Options object.
Threads == {"t1", "t2"}
Streams == {1}
OptionIds == {1}
Formats == {"jpeg", "png"}

\* The encoded inputs: unrecognised bytes, a recognised but truncated
\* image of each format, and one intact image of each format.
Images ==
    {[fmt |-> "unknown", intact |-> FALSE, w |-> 1, h |-> 1]}
    \cup {[fmt |-> f, intact |-> FALSE, w |-> 1, h |-> 1] : f \in Formats}
    \cup {[fmt |-> "jpeg", intact |-> TRUE, w |-> MaxDim, h |-> 1],
          [fmt |-> "png", intact |-> TRUE, w |-> 1, h |-> MaxDim]}

\* The values a caller may put in an Options object before a decode call:
\* inSampleSize, inPreferredConfig, inDither, inPreferQualityOverSpeed,
\* inBitmap, inPremultiplied.
OptionValues ==
    {[sampleSize |-> 2, config |-> "ARGB_8888", dither |-> FALSE,
      preferQualityOverSpeed |-> TRUE, bitmap |-> NULL, premultiplied |-> FALSE],
     [sampleSize |-> 2, config |-> "RGB_565", dither |-> TRUE,
      preferQualityOverSpeed |-> FALSE, bitmap |-> 1, premultiplied |-> TRUE]}

VARIABLES
    nStreams,             \* streams created so far
    nCalls,               \* nativeDecodeRegion calls made so far
    stream,               \* stream[s]: who holds the SkStreamRewindable
    dec,                  \* dec[d]: the SkImageDecoder selected for stream d
    brd,                  \* brd[h]: the SkBitmapRegionDecoder behind a handle
    opts,                 \* opts[o]: the mutable fields of an Options object
    gAutoDecoderCancel,   \* the registered AutoDecoderCancel guards
    cpc,                  \* cpc[o]: position of the requestCancelDecode caller
    pc,                   \* pc[t]: position of thread t in nativeDecodeRegion
    loc,                  \* loc[t]: the locals of nativeDecodeRegion
    ret,                  \* the return event of the last step, if it was one
    hist,                 \* hist[t]: what happened during t's call in flight
    region                \* the region arithmetic of one call, traced alone

vars == <<nStreams, nCalls, stream, dec, brd, opts, gAutoDecoderCancel, cpc, pc, loc,
          ret, hist, region>>

\* ------------------------------------------------------------- streams
NoImage == [fmt |-> "unknown", intact |-> FALSE, w |-> 1, h |-> 1]
\* A stream: who holds it, how often it was deleted, the bytes it carries.
NewStream(c) == [st |-> "caller", deletes |-> 0, img |-> c]
NoStream == [st |-> "unborn", deletes |-> 0, img |-> NoImage]

\* delete stream;
DeleteStream(sr) == [sr EXCEPT !.st = "deleted", !.deletes = @ + 1]

\* ------------------------------------------------------------- backend
NoDecoder ==
    [st |-> "none", fmt |-> "unknown", dither |-> TRUE, quality |-> FALSE,
     unpremul |-> FALSE, sampleSize |-> DefaultSampleSize, cancel |-> FALSE,
     stream |-> NULL, idxW |-> 0, idxH |-> 0, deletes |-> 0]

\* SkImageDecoder::Factory(stream): a decoder of the recognised format
\* with the library's initial settings, or NULL.
Factory(c) ==
    IF c.fmt = "unknown" THEN NoDecoder
    ELSE [NoDecoder EXCEPT !.st = "live", !.fmt = c.fmt]

\* decoder->buildTileIndex(stream, &width, &height)
buildTileIndex(d, s, c) ==
    IF c.intact THEN [d EXCEPT !.stream = s, !.idxW = c.w, !.idxH = c.h]
    ELSE d

\* "This call passes ownership of stream to the decoder, or deletes on
\* failure."
buildTileIndexStream(sr, c) ==
    IF c.intact THEN [sr EXCEPT !.st = "decoder"] ELSE DeleteStream(sr)

\* delete decoder;  (also ~SkBitmapRegionDecoder)
DeleteDecoder(d) == [NoDecoder EXCEPT !.st = "deleted", !.deletes = d.deletes + 1]

\* The four settings a decode reads from the backend.
Settings(d) ==
    [dither |-> d.dither, quality |-> d.quality, unpremul |-> d.unpremul,
     sampleSize |-> d.sampleSize]

\* -------------------------------------------------------------- handle
NoBrd == [st |-> "none", fDecoder |-> NULL, fWidth |-> 0, fHeight |-> 0]

\* Mutant: the constructor stores the dimensions the wrong way round.
SkBitmapRegionDecoder_Swapped(decoder, width, height) ==
    [st |-> "live", fDecoder |-> decoder, fWidth |-> height, fHeight |-> width]

\* Mutant: every handle is given the first backend.
SkBitmapRegionDecoder_Shared(decoder, width, height) ==
    [st |-> "live", fDecoder |-> 1, fWidth |-> width, fHeight |-> height]

\* SkBitmapRegionDecoder(SkImageDecoder* decoder, int width, int height)
SkBitmapRegionDecoder(decoder, width, height) ==
    [st |-> "live", fDecoder |-> decoder, fWidth |-> width, fHeight |-> height]

getDecoder(h) == brd[h].fDecoder
getWidth(h) == brd[h].fWidth
getHeight(h) == brd[h].fHeight

\* ------------------------------------------------------- return values
\* A return event: the kind of value returned (null, a handle, an int, the
\* reuse bitmap, a new bitmap), the value, a bitmap's size and
\* premultiplied flag, whether the reuse bitmap's pixels were marked
\* changed, whether a new bitmap was created, the pending exception, the
\* exit taken, and the history of the call that returned.
\* What a caller passes when it supplies no Options object; the values are
\* the ones the caller then expects the decode to use.
DefaultRequest ==
    [sampleSize |-> 1, config |-> "null", dither |-> TRUE,
     preferQualityOverSpeed |-> FALSE, bitmap |-> NULL, premultiplied |-> TRUE]

\* History of a nativeDecodeRegion call in flight: the handle, the Options
\* object (or NULL) and the request it was given, whether mCancel
\* was set on entry, whether another call on the same handle was in flight
\* at any time during it, the backend's settings on entry (recorded for
\* the calls entered with mCancel set), whether the backend's
\* unpremultiplied setting on entry differed from the one the call asks
\* for, whether the call was made right after a decode call on the same
\* handle returned null, whether mCancel was set while the backend was
\* decoding for the call, whether the requester's signal reached the
\* call's registered decoder before or while the backend was decoding, and
\* whether the Options object held an earlier call's output on entry.
NoHist ==
    [brd |-> NULL, options |-> NULL, req |-> DefaultRequest,
     cancelAtEntry |-> FALSE, overlapped |-> FALSE,
     pre |-> Settings(NoDecoder), stale |-> FALSE, afterFailure |-> FALSE,
     flaggedInDecode |-> FALSE, signalled |-> "none",
     outputsSet |-> FALSE]

\* A return event: the kind of value returned (val, or a bitmap of w x h
\* with its premultiplied flag), the pending exception, the exit path, and
\* for nativeDecodeRegion the history of the call.
NoRet ==
    [kind |-> "none", val |-> 0, w |-> 0, h |-> 0, premul |-> FALSE,
     pixelsChanged |-> FALSE, created |-> FALSE,
     exc |-> "none", path |-> "none", call |-> NoHist]

\* return nullObjectReturn(msg), after an optional doThrowIOE(env, exc)
NullReturn(exc, path) == [NoRet EXCEPT !.kind = "null", !.exc = exc, !.path = path]

\* Mutant: the unsupported-format path returns null without throwing.
UnsupportedMsg_NotThrown == "none"

\* doThrowIOE(env, "Image format not supported");
UnsupportedMsg == "Image format not supported"

\* Mutant: an index-build failure is reported with the unsupported-format
\* message.
IndexFailedMsg_Generic(fmt) == UnsupportedMsg

\* snprintf(msg, ..., "Image failed to decode using %s decoder", ...)
IndexFailedMsg(fmt) == "Image failed to decode using " \o fmt \o " decoder"

LiveHandles == {h \in DOMAIN brd : brd[h].st = "live"}
InFlight(t) == pc[t] # "idle"

\* Mutant: dithering is off by default.
NoLoc_DitherOff ==
    [brd |-> NULL, decoder |-> NULL, options |-> NULL,
     sampleSize |-> DefaultSampleSize, prefColorType |-> "kUnknown",
     doDither |-> FALSE, preferQualityOverSpeed |-> FALSE,
     requireUnpremultiplied |-> FALSE, tileBitmap |-> NULL]

\* The locals of nativeDecodeRegion as declared (lines 172-176), which is
\* what they stay when options is null.
NoLoc ==
    [brd |-> NULL, decoder |-> NULL, options |-> NULL,
     sampleSize |-> DefaultSampleSize, prefColorType |-> "kUnknown",
     doDither |-> TRUE, preferQualityOverSpeed |-> FALSE,
     requireUnpremultiplied |-> FALSE, tileBitmap |-> NULL]

NoOpts ==
    [mCancel |-> FALSE, outWidth |-> 0, outHeight |-> 0, outMimeType |-> "unset"]

\* The region arithmetic of a call: where it is (no call traced, at line
\* 207, the local region computed, the rectangle handed to the backend, or
\* stopped by an overflow trap), the call's arguments, the local SkIRect
\* and the SkIRect the backend's decodeSubset was given.
NoRect == [fLeft |-> 0, fTop |-> 0, fRight |-> 0, fBottom |-> 0]
NoRegion ==
    [pc |-> "none", start_x |-> 0, start_y |-> 0, width |-> 0, height |-> 0,
     region |-> NoRect, rect |-> NoRect]

\* The state before any entry point has run, when the callers have the
\* streams S to hand to the construction entry points.
InitWith(S) ==
    /\ nStreams = 0
    /\ nCalls = 0
    /\ stream = [s \in S |-> NoStream]
    /\ dec = [s \in S |-> NoDecoder]
    /\ brd = [s \in S |-> NoBrd]
    /\ opts = [o \in OptionIds |-> NoOpts]
    /\ gAutoDecoderCancel = {}
    /\ cpc = [o \in OptionIds |-> "idle"]
    /\ pc = [t \in Threads |-> "idle"]
    /\ loc = [t \in Threads |-> NoLoc]
    /\ ret = NoRet
    /\ hist = [t \in Threads |-> NoHist]

Init == InitWith(Streams) /\ region = NoRegion

\* ---------------------------------------------------------- construction
\* Mutant: the unsupported-format path returns without deleting the stream.
FactoryNullStream_Leak(sr) == sr

\* if (NULL == decoder) { delete stream; doThrowIOE(...); return null }
FactoryNullStream(sr) == DeleteStream(sr)

\* createBitmapRegionDecoder(env, stream), for the stream s with content c
createBitmapRegionDecoder(s, c) ==
    LET decoder == Factory(c) IN
    IF decoder.st = "none"
    THEN /\ stream' = [stream EXCEPT ![s] = FactoryNullStream(NewStream(c))]
         /\ ret' = NullReturn(UnsupportedMsg, "UnsupportedFormat")
         /\ UNCHANGED <<dec, brd>>
    ELSE IF ~c.intact
    THEN /\ stream' = [stream EXCEPT ![s] = buildTileIndexStream(NewStream(c), c)]
         /\ dec' = [dec EXCEPT ![s] = DeleteDecoder(buildTileIndex(decoder, s, c))]
         /\ ret' = NullReturn(IndexFailedMsg(decoder.fmt), "IndexBuildFailed")
         /\ UNCHANGED brd
    ELSE LET built == buildTileIndex(decoder, s, c) IN
         /\ stream' = [stream EXCEPT ![s] = buildTileIndexStream(NewStream(c), c)]
         /\ dec' = [dec EXCEPT ![s] = built]
         /\ brd' = [brd EXCEPT ![s] = SkBitmapRegionDecoder(s, built.idxW, built.idxH)]
         /\ ret' = [NoRet EXCEPT !.kind = "brd", !.val = s, !.path = "Created"]

CreateFrame ==
    UNCHANGED <<nCalls, opts, gAutoDecoderCancel, cpc, pc, loc, hist, region>>

nativeNewInstanceFromByteArray(t) ==
    /\ pc[t] = "idle"
    /\ nStreams + 1 \in DOMAIN stream
    /\ \E c \in Images :
          /\ createBitmapRegionDecoder(nStreams + 1, c)
          /\ nStreams' = nStreams + 1
    /\ CreateFrame

nativeNewInstanceFromFileDescriptor(t) ==
    /\ pc[t] = "idle"
    /\ \E fd \in {"null", "broken", "open"} :
          IF fd = "null"
          THEN /\ ret' = NullReturn("NullPointerException", "NullDescriptor")
               /\ UNCHANGED <<nStreams, stream, dec, brd>>
          ELSE IF fd = "broken"
          THEN /\ ret' = NullReturn("broken file descriptor", "InvalidDescriptor")
               /\ UNCHANGED <<nStreams, stream, dec, brd>>
          ELSE /\ nStreams + 1 \in DOMAIN stream
               /\ \E c \in Images :
                     /\ createBitmapRegionDecoder(nStreams + 1, c)
                     /\ nStreams' = nStreams + 1
    /\ CreateFrame

nativeNewInstanceFromStream(t) ==
    /\ pc[t] = "idle"
    /\ \E copied \in BOOLEAN :
          IF ~copied
          THEN /\ ret' = NullReturn("none", "StreamCopyFailed")
               /\ UNCHANGED <<nStreams, stream, dec, brd>>
          ELSE /\ nStreams + 1 \in DOMAIN stream
               /\ \E c \in Images :
                     /\ createBitmapRegionDecoder(nStreams + 1, c)
                     /\ nStreams' = nStreams + 1
    /\ CreateFrame

nativeNewInstanceFromAsset(t) ==
    /\ pc[t] = "idle"
    /\ \E copied \in BOOLEAN :
          IF ~copied
          THEN /\ ret' = NullReturn("none", "AssetCopyFailed")
               /\ UNCHANGED <<nStreams, stream, dec, brd>>
          ELSE /\ nStreams + 1 \in DOMAIN stream
               /\ \E c \in Images :
                     /\ createBitmapRegionDecoder(nStreams + 1, c)
                     /\ nStreams' = nStreams + 1
    /\ CreateFrame

\* ----------------------------------------------------- queries, teardown
OtherFrame ==
    UNCHANGED <<nStreams, nCalls, stream, opts, gAutoDecoderCancel, cpc, pc, loc, hist,
                region>>

IntReturn(v, path) == [NoRet EXCEPT !.kind = "int", !.val = v, !.path = path]

nativeGetHeight(t) ==
    /\ pc[t] = "idle"
    /\ \E h \in LiveHandles :
          ret' = [IntReturn(getHeight(h), "GetHeight") EXCEPT !.call.brd = h]
    /\ UNCHANGED <<dec, brd>>
    /\ OtherFrame

nativeGetWidth(t) ==
    /\ pc[t] = "idle"
    /\ \E h \in LiveHandles :
          ret' = [IntReturn(getWidth(h), "GetWidth") EXCEPT !.call.brd = h]
    /\ UNCHANGED <<dec, brd>>
    /\ OtherFrame

\* ~SkBitmapRegionDecoder() { delete fDecoder; }
DestroyBrd(b) == [b EXCEPT !.st = "deleted"]

\* nativeClean: callers destroy a handle once, with no call in flight on it.
nativeClean(t) ==
    /\ pc[t] = "idle"
    /\ \E h \in LiveHandles :
          /\ \A u \in Threads : InFlight(u) => loc[u].brd # h
          /\ dec' = [dec EXCEPT ![getDecoder(h)] = DeleteDecoder(@)]
          /\ brd' = [brd EXCEPT ![h] = DestroyBrd(@)]
    /\ ret' = [NoRet EXCEPT !.kind = "void", !.path = "Clean"]
    /\ OtherFrame

\* ------------------------------------------------------------ decodeRegion
\* GraphicsJNI::getNativeBitmapColorType(env, jconfig)
getNativeBitmapColorType(config) ==
    CASE config = "ARGB_8888" -> "kN32"
      [] config = "RGB_565" -> "kRGB_565"
      [] OTHER -> "kUnknown"

\* getMimeTypeString(env, decoder->getFormat())
getMimeTypeString(fmt) ==
    CASE fmt = "jpeg" -> "image/jpeg"
      [] fmt = "png" -> "image/png"
      [] OTHER -> "null"

\* Mutant: requireUnpremultiplied is read without the negation.
ReadOptions_NoNegate(h, o, v) ==
    IF o = NULL
    THEN [NoLoc EXCEPT !.brd = h, !.decoder = getDecoder(h)]
    ELSE [brd |-> h, decoder |-> getDecoder(h), options |-> o,
          sampleSize |-> v.sampleSize,
          prefColorType |-> getNativeBitmapColorType(v.config),
          doDither |-> v.dither,
          preferQualityOverSpeed |-> v.preferQualityOverSpeed,
          requireUnpremultiplied |-> v.premultiplied,
          tileBitmap |-> v.bitmap]

\* The locals of nativeDecodeRegion after lines 169-193.
ReadOptions(h, o, v) ==
    IF o = NULL
    THEN [NoLoc EXCEPT !.brd = h, !.decoder = getDecoder(h)]
    ELSE [brd |-> h, decoder |-> getDecoder(h), options |-> o,
          sampleSize |-> v.sampleSize,
          prefColorType |-> getNativeBitmapColorType(v.config),
          doDither |-> v.dither,
          preferQualityOverSpeed |-> v.preferQualityOverSpeed,
          requireUnpremultiplied |-> ~v.premultiplied,
          tileBitmap |-> v.bitmap]

\* Mutant: the outputs are not reset on entry.
InitOutputs_Skip(op) == op

\* "initialize these, in case we fail later on"
InitOutputs(op) ==
    [op EXCEPT !.outWidth = UnsetDim, !.outHeight = UnsetDim, !.outMimeType = "null"]

\* Mutant: the write-back stores the height as the width.
UpdateOptions_Swapped(op, w, h, fmt) ==
    [op EXCEPT !.outWidth = h, !.outHeight = w,
               !.outMimeType = getMimeTypeString(fmt)]

\* "update options (if any)"
UpdateOptions(op, w, h, fmt) ==
    [op EXCEPT !.outWidth = w, !.outHeight = h,
               !.outMimeType = getMimeTypeString(fmt)]

\* AutoDecoderCancel adc(options, decoder): the guard's constructor
\* registers the pair when options is not null ...
AutoDecoderCancelCtor(reg, t, o, d) ==
    IF o = NULL THEN reg ELSE reg \cup {[owner |-> t, options |-> o, decoder |-> d]}

\* ... and its destructor removes it.
AutoDecoderCancelDtor(reg, t) == {r \in reg : r.owner # t}

\* Mutant: a return leaves the guard registered.
LeaveScope_Leak(t) == gAutoDecoderCancel

\* Every return of nativeDecodeRegion after line 198 leaves adc's scope.
LeaveScope(t) == AutoDecoderCancelDtor(gAutoDecoderCancel, t)

OthersOn(t, h) == {u \in Threads \ {t} : InFlight(u) /\ loc[u].brd = h}

DecodeFrame == UNCHANGED <<nStreams, stream, brd, cpc, region>>

\* Lines 167-193: read the options into locals and reset the outputs.
nativeDecodeRegion(t) ==
    /\ pc[t] = "idle"
    /\ nCalls < MaxCalls
    /\ nCalls' = nCalls + 1
    /\ \E h \in LiveHandles, o \in OptionIds \cup {NULL} :
          \* an Options object is used by one decode call at a time
          /\ o # NULL => \A u \in Threads \ {t} : ~(InFlight(u) /\ loc[u].options = o)
          /\ \E v \in (IF o = NULL THEN {DefaultRequest} ELSE OptionValues) :
                /\ loc' = [loc EXCEPT ![t] = ReadOptions(h, o, v)]
                /\ opts' = IF o = NULL THEN opts
                           ELSE [opts EXCEPT ![o] = InitOutputs(@)]
                /\ hist' = [u \in Threads |->
                     IF u = t
                     THEN LET cancelled == o # NULL /\ opts[o].mCancel IN
                          [brd |-> h, options |-> o, req |-> v,
                           cancelAtEntry |-> cancelled,
                           overlapped |-> (OthersOn(t, h) # {}),
                           pre |-> IF cancelled THEN Settings(dec[getDecoder(h)])
                                   ELSE Settings(NoDecoder),
                           stale |-> (Settings(dec[getDecoder(h)]).unpremul
                                        # ~v.premultiplied),
                           afterFailure |->
                               (ret.kind = "null" /\ ret.call.brd = h),
                           flaggedInDecode |-> FALSE, signalled |-> "none",
                           outputsSet |-> (o # NULL /\ opts[o].outWidth > 0)]
                     ELSE IF u \in OthersOn(t, h)
                     THEN [hist[u] EXCEPT !.overlapped = TRUE]
                     ELSE hist[u]]
    /\ pc' = [pc EXCEPT ![t] = "setDitherImage"]
    /\ ret' = NoRet
    /\ UNCHANGED <<dec, gAutoDecoderCancel>>
    /\ DecodeFrame

\* decoder->setDitherImage(doDither);
setDitherImage(t) ==
    /\ UNCHANGED nCalls
    /\ pc[t] = "setDitherImage"
    /\ dec' = [dec EXCEPT ![loc[t].decoder].dither = loc[t].doDither]
    /\ pc' = [pc EXCEPT ![t] = "setPreferQualityOverSpeed"]
    /\ ret' = NoRet
    /\ UNCHANGED <<opts, gAutoDecoderCancel, loc, hist>>
    /\ DecodeFrame

\* decoder->setPreferQualityOverSpeed(preferQualityOverSpeed);
setPreferQualityOverSpeed(t) ==
    /\ UNCHANGED nCalls
    /\ pc[t] = "setPreferQualityOverSpeed"
    /\ dec' = [dec EXCEPT ![loc[t].decoder].quality = loc[t].preferQualityOverSpeed]
    /\ pc' = [pc EXCEPT ![t] = "setRequireUnpremultipliedColors"]
    /\ ret' = NoRet
    /\ UNCHANGED <<opts, gAutoDecoderCancel, loc, hist>>
    /\ DecodeFrame

\* Mutant: the unpremultiplied setting is written only when it is asked
\* for, and so is left over from an earlier call otherwise.
setRequireUnpremultipliedColors_OnlyWhenSet(t) ==
    /\ UNCHANGED nCalls
    /\ pc[t] = "setRequireUnpremultipliedColors"
    /\ dec' = IF loc[t].requireUnpremultiplied
              THEN [dec EXCEPT ![loc[t].decoder].unpremul = TRUE]
              ELSE dec
    /\ pc' = [pc EXCEPT ![t] = "adc"]
    /\ ret' = NoRet
    /\ UNCHANGED <<opts, gAutoDecoderCancel, loc, hist>>
    /\ DecodeFrame

\* decoder->setRequireUnpremultipliedColors(requireUnpremultiplied);
setRequireUnpremultipliedColors(t) ==
    /\ UNCHANGED nCalls
    /\ pc[t] = "setRequireUnpremultipliedColors"
    /\ dec' = [dec EXCEPT ![loc[t].decoder].unpremul = loc[t].requireUnpremultiplied]
    /\ pc' = [pc EXCEPT ![t] = "adc"]
    /\ ret' = NoRet
    /\ UNCHANGED <<opts, gAutoDecoderCancel, loc, hist>>
    /\ DecodeFrame

\* Mutant: the guard is not registered before the flag is read.
RegisterAdc_NotRegistered(t) ==
    /\ UNCHANGED nCalls
    /\ pc[t] = "adc"
    /\ pc' = [pc EXCEPT ![t] = "checkCancel"]
    /\ ret' = NoRet
    /\ UNCHANGED <<dec, opts, gAutoDecoderCancel, loc, hist>>
    /\ DecodeFrame

\* AutoDecoderCancel adc(options, decoder);
RegisterAdc(t) ==
    /\ UNCHANGED nCalls
    /\ pc[t] = "adc"
    /\ gAutoDecoderCancel' =
          AutoDecoderCancelCtor(gAutoDecoderCancel, t, loc[t].options, loc[t].decoder)
    /\ pc' = [pc EXCEPT ![t] = "checkCancel"]
    /\ ret' = NoRet
    /\ UNCHANGED <<dec, opts, loc, hist>>
    /\ DecodeFrame

\* Mutant: the pre-check of mCancel is missing.
CancelRequested_NoCheck(t) == loc[t].options # NULL /\ FALSE

\* if (NULL != options && env->GetBooleanField(options, gOptions_mCancelID))
CancelRequested(t) == loc[t].options # NULL /\ opts[loc[t].options].mCancel

\* A return of nativeDecodeRegion: adc leaves scope, the locals die.
Return(t, r) ==
    /\ gAutoDecoderCancel' = LeaveScope(t)
    /\ ret' = [r EXCEPT !.call = hist[t]]
    /\ pc' = [pc EXCEPT ![t] = "idle"]
    /\ loc' = [loc EXCEPT ![t] = NoLoc]
    /\ hist' = [hist EXCEPT ![t] = NoHist]

\* return nullObjectReturn("gOptions_mCancelID");
CancelledReturn == NullReturn("none", "Cancelled")

\* Lines 200-217: the pre-check, then the region and the bitmap locals.
CheckCancel(t) ==
    /\ UNCHANGED nCalls
    /\ pc[t] = "checkCancel"
    /\ IF CancelRequested(t)
       THEN /\ Return(t, CancelledReturn)
            /\ UNCHANGED <<dec, opts>>
       ELSE /\ pc' = [pc EXCEPT ![t] = "setSampleSize"]
            /\ ret' = NoRet
            /\ UNCHANGED <<dec, opts, gAutoDecoderCancel, loc, hist>>
    /\ DecodeFrame

\* Mutant: decodeRegion does not set the sample size.
setSampleSize_Skip(t) ==
    /\ UNCHANGED nCalls
    /\ pc[t] = "setSampleSize"
    /\ pc' = [pc EXCEPT ![t] = "decodeSubset"]
    /\ ret' = NoRet
    /\ UNCHANGED <<dec, opts, gAutoDecoderCancel, loc, hist>>
    /\ DecodeFrame

\* fDecoder->setSampleSize(sampleSize);
setSampleSize(t) ==
    /\ UNCHANGED nCalls
    /\ pc[t] = "setSampleSize"
    /\ dec' = [dec EXCEPT ![loc[t].decoder].sampleSize = loc[t].sampleSize]
    /\ pc' = [pc EXCEPT ![t] = "decodeSubset"]
    /\ ret' = NoRet
    /\ UNCHANGED <<opts, gAutoDecoderCancel, loc, hist>>
    /\ DecodeFrame

\* return fDecoder->decodeSubset(bitmap, rect, pref): the backend starts
\* decoding, clearing a stale cancel signal.
decodeSubset(t) ==
    /\ UNCHANGED nCalls
    /\ pc[t] = "decodeSubset"
    /\ dec' = [dec EXCEPT ![loc[t].decoder].cancel = FALSE]
    /\ pc' = [pc EXCEPT ![t] = "decoding"]
    /\ ret' = NoRet
    /\ UNCHANGED <<opts, gAutoDecoderCancel, loc, hist>>
    /\ DecodeFrame

\* return nullObjectReturn("decoder->decodeRegion returned false");
DecodeFailedReturn == NullReturn("none", "DecodeFailed")

\* Mutant: a failed decode tears the handle down.
DecodeFailed_DestroysHandle(t) ==
    /\ UNCHANGED nCalls
    /\ pc[t] = "decoding"
    /\ Return(t, DecodeFailedReturn)
    /\ dec' = [dec EXCEPT ![loc[t].decoder] = DeleteDecoder(@)]
    /\ brd' = [brd EXCEPT ![loc[t].brd] = DestroyBrd(@)]
    /\ UNCHANGED <<opts, nStreams, stream, cpc, region>>

\* if (!brd->decodeRegion(...)) return ...: the backend may fail at any
\* point, and does once it polls a cancel signal.
DecodeFailed(t) ==
    /\ UNCHANGED nCalls
    /\ pc[t] = "decoding"
    /\ Return(t, DecodeFailedReturn)
    /\ UNCHANGED <<dec, opts>>
    /\ DecodeFrame

\* The size of the buffer the backend decodes the image into at a sample
\* size.
SampledDim(n, sampleSize) == (n + sampleSize - 1) \div sampleSize

\* Mutant: the reuse bitmap is ignored and a new bitmap is created.
DecodeResult_AlwaysCreates(l, w, h) ==
    [NoRet EXCEPT !.kind = "bitmap", !.w = w, !.h = h, !.created = TRUE,
                  !.premul = ~l.requireUnpremultiplied, !.path = "Success"]

\* The result of a successful call: the reuse bitmap itself after
\* bitmap.notifyPixelsChanged(), or a new bitmap made by createBitmap with
\* kBitmapCreateFlag_Premultiplied unless requireUnpremultiplied.
DecodeResult(l, w, h) ==
    IF l.tileBitmap # NULL
    THEN [NoRet EXCEPT !.kind = "tileBitmap", !.val = l.tileBitmap,
                       !.w = w, !.h = h, !.pixelsChanged = TRUE,
                       !.path = "Success"]
    ELSE [NoRet EXCEPT !.kind = "bitmap", !.w = w, !.h = h, !.created = TRUE,
                       !.premul = ~l.requireUnpremultiplied, !.path = "Success"]

\* Mutant: the backend never polls the cancel signal.
DecodeSucceeded_NoPoll(t) ==
    /\ UNCHANGED nCalls
    /\ pc[t] = "decoding"
    /\ LET d == dec[loc[t].decoder]
           w == SampledDim(d.idxW, d.sampleSize)
           h == SampledDim(d.idxH, d.sampleSize)
       IN /\ opts' = IF loc[t].options = NULL THEN opts
                     ELSE [opts EXCEPT ![loc[t].options] =
                             UpdateOptions(@, w, h, d.fmt)]
          /\ Return(t, DecodeResult(loc[t], w, h))
    /\ UNCHANGED dec
    /\ DecodeFrame

\* Lines 219-245 when decodeSubset returns true.
DecodeSucceeded(t) ==
    /\ UNCHANGED nCalls
    /\ pc[t] = "decoding"
    /\ ~dec[loc[t].decoder].cancel
    /\ LET d == dec[loc[t].decoder]
           w == SampledDim(d.idxW, d.sampleSize)
           h == SampledDim(d.idxH, d.sampleSize)
       IN /\ opts' = IF loc[t].options = NULL THEN opts
                     ELSE [opts EXCEPT ![loc[t].options] =
                             UpdateOptions(@, w, h, d.fmt)]
          /\ Return(t, DecodeResult(loc[t], w, h))
    /\ UNCHANGED dec
    /\ DecodeFrame

\* ------------------------------------------------------- cancel requester
\* Options.requestCancelDecode(): mCancel = true; ...
SetCancelFlag(o) ==
    /\ cpc[o] = "idle"
    /\ opts' = [opts EXCEPT ![o].mCancel = TRUE]
    /\ cpc' = [cpc EXCEPT ![o] = "requestCancel"]
    /\ hist' = [t \in Threads |->
                  IF InFlight(t) /\ loc[t].options = o
                  THEN [hist[t] EXCEPT !.flaggedInDecode = (pc[t] = "decoding")]
                  ELSE hist[t]]
    /\ ret' = NoRet
    /\ UNCHANGED <<nStreams, nCalls, stream, dec, brd, gAutoDecoderCancel, pc, loc,
                   region>>

\* ... requestCancel(): the decoder of the guard registered for these
\* options, if any, is told to cancel.
RequestCancel(o) ==
    /\ cpc[o] = "requestCancel"
    /\ dec' = [d \in DOMAIN dec |->
                 IF \E r \in gAutoDecoderCancel : r.options = o /\ r.decoder = d
                 THEN [dec[d] EXCEPT !.cancel = TRUE] ELSE dec[d]]
    /\ cpc' = [cpc EXCEPT ![o] = "done"]
    /\ hist' = [t \in Threads |->
                  IF \E r \in gAutoDecoderCancel : r.owner = t /\ r.options = o
                  THEN [hist[t] EXCEPT !.signalled =
                           IF pc[t] = "decoding" THEN "decoding" ELSE "before"]
                  ELSE hist[t]]
    /\ ret' = NoRet
    /\ UNCHANGED <<nStreams, nCalls, stream, brd, opts, gAutoDecoderCancel, pc, loc,
                   region>>

Next ==
    \/ \E t \in Threads :
          \/ nativeNewInstanceFromByteArray(t)
          \/ nativeNewInstanceFromFileDescriptor(t)
          \/ nativeNewInstanceFromStream(t)
          \/ nativeNewInstanceFromAsset(t)
          \/ nativeGetHeight(t)
          \/ nativeGetWidth(t)
          \/ nativeClean(t)
          \/ nativeDecodeRegion(t)
          \/ setDitherImage(t)
          \/ setPreferQualityOverSpeed(t)
          \/ setRequireUnpremultipliedColors(t)
          \/ RegisterAdc(t)
          \/ CheckCancel(t)
          \/ setSampleSize(t)
          \/ decodeSubset(t)
          \/ DecodeFailed(t)
          \/ DecodeSucceeded(t)
    \/ \E o \in OptionIds :
          \/ SetCancelFlag(o)
          \/ RequestCancel(o)

Spec == Init /\ [][Next]_vars

\* A thread inside nativeDecodeRegion runs on to the function's return, the
\* backend's polling of the cancel signal included, and a requester that
\* has set mCancel goes on to signal; callers need never start a call.
InCall(t) ==
    \/ setDitherImage(t)
    \/ setPreferQualityOverSpeed(t)
    \/ setRequireUnpremultipliedColors(t)
    \/ RegisterAdc(t)
    \/ CheckCancel(t)
    \/ setSampleSize(t)
    \/ decodeSubset(t)
    \/ DecodeFailed(t)
    \/ DecodeSucceeded(t)

Fairness ==
    /\ \A t \in Threads : WF_vars(InCall(t))
    /\ \A o \in OptionIds : WF_vars(RequestCancel(o))

FairSpec == Spec /\ Fairness

\* The entry points of this file called by the two threads when the
\* callers have two streams, and so up to two handles; nobody requests a
\* cancellation.
TwoStreams == {1, 2}
InitTwo == InitWith(TwoStreams) /\ region = NoRegion

NextTwo ==
    \E t \in Threads :
        \/ nativeNewInstanceFromByteArray(t)
        \/ nativeNewInstanceFromFileDescriptor(t)
        \/ nativeNewInstanceFromStream(t)
        \/ nativeNewInstanceFromAsset(t)
        \/ nativeGetHeight(t)
        \/ nativeGetWidth(t)
        \/ nativeClean(t)
        \/ nativeDecodeRegion(t)
        \/ InCall(t)

SpecTwo == InitTwo /\ [][NextTwo]_vars

\* ------------------------------------------------------ region arithmetic
\* jint: a 32-bit signed integer.
INT32_MAX == 2147483647
INT32_MIN == -INT32_MAX - 1

\* The arguments start_x, start_y and width, height a call is traced with.
Coordinates == {INT32_MIN, -1, 0, 1, INT32_MAX}
Extents == {-1, 0, 1, MaxDim + 1, INT32_MAX}

\* Whether the mathematical sum a + b is outside the range of int.
AddOverflows(a, b) ==
    \/ b > 0 /\ a > INT32_MAX - b
    \/ b < 0 /\ a < INT32_MIN - b

\* The sum a + b reduced modulo 2^32 into the range of int, computed
\* without leaving that range.
WrapAdd(a, b) ==
    IF b > 0 /\ a > INT32_MAX - b
    THEN (a - INT32_MAX - 1) + (b - INT32_MAX - 1)
    ELSE IF b < 0 /\ a < INT32_MIN - b
    THEN (a + INT32_MAX + 1) + (b + INT32_MAX + 1)
    ELSE a + b

\* int + int: the sum when it is representable; otherwise the behaviour is
\* undefined, and the build either wraps around or, built to trap on
\* signed overflow, stops the process.
SignedAdd(a, b) ==
    IF AddOverflows(a, b)
    THEN {[ok |-> TRUE, val |-> WrapAdd(a, b)], [ok |-> FALSE, val |-> 0]}
    ELSE {[ok |-> TRUE, val |-> a + b]}

\* Mutant: the rectangle's left and top edges are clamped to the image.
MakeRegion_Clamped(start_x, start_y, right, bottom) ==
    [fLeft |-> IF start_x < 0 THEN 0 ELSE start_x,
     fTop |-> IF start_y < 0 THEN 0 ELSE start_y,
     fRight |-> right, fBottom |-> bottom]

\* region.fLeft = start_x; region.fTop = start_y;
\* region.fRight = start_x + width; region.fBottom = start_y + height;
MakeRegion(start_x, start_y, right, bottom) ==
    [fLeft |-> start_x, fTop |-> start_y, fRight |-> right, fBottom |-> bottom]

RegionFrame ==
    UNCHANGED <<nStreams, nCalls, stream, dec, brd, opts, gAutoDecoderCancel, cpc, pc,
                loc, ret, hist>>

\* Lines 207-211.
ComputeRegion ==
    /\ region.pc = "entry"
    /\ \E right \in SignedAdd(region.start_x, region.width),
          bottom \in SignedAdd(region.start_y, region.height) :
          region' =
              IF right.ok /\ bottom.ok
              THEN [region EXCEPT
                      !.pc = "computed",
                      !.region = MakeRegion(region.start_x, region.start_y,
                                            right.val, bottom.val)]
              ELSE [region EXCEPT !.pc = "trapped"]
    /\ RegionFrame

\* brd->decodeRegion(&bitmap, region, prefColorType, sampleSize), which
\* calls fDecoder->decodeSubset(bitmap, rect, pref).
decodeRegion ==
    /\ region.pc = "computed"
    /\ region' = [region EXCEPT !.pc = "handed", !.rect = region.region]
    /\ RegionFrame

\* One call's region arithmetic, for every combination of the arguments.
RegionInit ==
    /\ InitWith(Streams)
    /\ region \in {[NoRegion EXCEPT !.pc = "entry", !.start_x = x, !.start_y = y,
                                      !.width = w, !.height = h] :
                      x \in Coordinates, y \in Coordinates,
                      w \in Extents, h \in Extents}

RegionNext == ComputeRegion \/ decodeRegion

RegionSpec == RegionInit /\ [][RegionNext]_vars

\* ================================================================ claims
\* The settings a request asks the backend to decode with.
Own(req) ==
    [dither |-> req.dither, quality |-> req.preferQualityOverSpeed,
     unpremul |-> ~req.premultiplied, sampleSize |-> req.sampleSize]

DecodeReturned == ret.path \in {"Success", "DecodeFailed", "Cancelled"}
CreateFailed == ret.path \in {"UnsupportedFormat", "IndexBuildFailed"}

\* C1: every stream handed to create is consumed exactly once: after a
\* successful create it is held by the backend and was never deleted,
\* after a failed create it was deleted exactly once and no handle exists;
\* it is never left with the caller.
C1_StreamConsumedOnce ==
    /\ \A s \in DOMAIN stream :
          IF s > nStreams
          THEN stream[s].st = "unborn"
          ELSE \/ /\ stream[s].st = "decoder"
                  /\ stream[s].deletes = 0
                  /\ brd[s].st # "none"
               \/ /\ stream[s].st = "deleted"
                  /\ stream[s].deletes = 1
                  /\ brd[s].st = "none"
    /\ ret.path = "Created" =>
          stream[ret.val].st = "decoder" /\ dec[ret.val].stream = ret.val
    /\ CreateFailed => stream[nStreams].st = "deleted"

C1_Witness ==
    /\ ret.path = "IndexBuildFailed"
    /\ stream[nStreams].st = "deleted"
    /\ stream[nStreams].deletes = 1

\* C2: a decodeRegion call entered with the cancellation flag already set
\* never invokes the backend's decodeSubset and returns null through the
\* pre-check.
C2_CancelledBeforeStart ==
    /\ \A t \in Threads :
          hist[t].cancelAtEntry => pc[t] \notin {"decodeSubset", "decoding"}
    /\ (DecodeReturned /\ ret.call.cancelAtEntry) =>
          (ret.kind = "null" /\ ret.path = "Cancelled")

C2_Witness ==
    ret.path = "Cancelled" /\ ret.call.cancelAtEntry /\ ret.kind = "null"

\* A call entered with the cancellation flag set, with no other call on
\* the handle overlapping it, has just returned.
SerialAbort ==
    /\ ret.path = "Cancelled"
    /\ ret.call.cancelAtEntry
    /\ ~ret.call.overlapped
    /\ brd[ret.call.brd].st = "live"

\* C3 as stated: after such a call the backend's dither, quality,
\* unpremultiplied and sample-size settings are what they were before it.
C3_Original_BackendUntouched ==
    SerialAbort => Settings(dec[getDecoder(ret.call.brd)]) = ret.call.pre

\* C3 amended: after such a call the backend's sample size is what it was
\* before the call, and its dither, quality and unpremultiplied settings
\* are the call's own values.
C3_AbortKeepsSampleSizeOnly ==
    SerialAbort =>
        Settings(dec[getDecoder(ret.call.brd)]) =
            [Own(ret.call.req) EXCEPT !.sampleSize = ret.call.pre.sampleSize]

C3_Witness ==
    /\ SerialAbort
    /\ Settings(dec[getDecoder(ret.call.brd)]) # ret.call.pre
    /\ ret.call.req.sampleSize # ret.call.pre.sampleSize

\* C4: a registration belongs to a call that is in flight past line 198
\* and was given those options; a thread that is not inside a call has no
\* registration.
C4_NoDanglingRegistration ==
    /\ \A r \in gAutoDecoderCancel :
          /\ pc[r.owner] \in {"checkCancel", "setSampleSize", "decodeSubset", "decoding"}
          /\ loc[r.owner].options = r.options
          /\ loc[r.owner].decoder = r.decoder
    /\ \A t \in Threads :
          pc[t] = "idle" => \A r \in gAutoDecoderCancel : r.owner # t

C4_Witness ==
    /\ ret.path = "Cancelled"
    /\ ret.call.options # NULL
    /\ gAutoDecoderCancel = {}

\* C5: the backend decodes a call's subset with settings other than the
\* call's own only if another call on the same handle overlapped it.
C5_CorruptionOnlyWhenOverlapped ==
    \A t \in Threads :
        (pc[t] = "decoding" /\ Settings(dec[loc[t].decoder]) # Own(hist[t].req))
            => hist[t].overlapped

\* The interleaving: t is decoding with exactly the settings the other
\* call in flight on the handle wrote.
C5_Witness ==
    \E t \in Threads, u \in Threads :
        /\ t # u
        /\ pc[t] = "decoding"
        /\ InFlight(u)
        /\ loc[u].brd = loc[t].brd
        /\ Own(hist[u].req) # Own(hist[t].req)
        /\ Settings(dec[loc[t].decoder]) = Own(hist[u].req)

\* C6: a call that no other call on the handle overlaps decodes with its
\* own dither, quality, unpremultiplied and sample-size values, from the
\* moment decodeSubset is invoked until it returns, and a freshly created
\* result is premultiplied exactly when the call asked for premultiplied
\* output.
C6_SequentialCallsUseOwnSettings ==
    /\ \A t \in Threads :
          (pc[t] \in {"decodeSubset", "decoding"} /\ ~hist[t].overlapped) =>
              /\ dec[loc[t].decoder].dither = hist[t].req.dither
              /\ dec[loc[t].decoder].quality = hist[t].req.preferQualityOverSpeed
              /\ dec[loc[t].decoder].unpremul = ~hist[t].req.premultiplied
              /\ dec[loc[t].decoder].sampleSize = hist[t].req.sampleSize
    /\ (ret.path = "Success" /\ ret.kind = "bitmap") =>
          ret.premul = ret.call.req.premultiplied

\* A call that nothing overlaps decodes with its own unpremultiplied
\* setting on a backend that an earlier call had left set to the opposite.
C6_Witness ==
    \E t \in Threads :
        /\ pc[t] = "decoding"
        /\ ~hist[t].overlapped
        /\ nCalls >= 2
        /\ hist[t].stale
        /\ dec[loc[t].decoder].unpremul = ~hist[t].req.premultiplied

\* C7: a live handle's width and height are the dimensions of the image
\* in the stream its backend indexed, in every state, and the width and
\* height queries return them.
C7_DimensionsStable ==
    /\ \A h \in LiveHandles :
          /\ getWidth(h) = stream[dec[getDecoder(h)].stream].img.w
          /\ getHeight(h) = stream[dec[getDecoder(h)].stream].img.h
    /\ ret.path = "GetWidth" =>
          ret.val = stream[dec[getDecoder(ret.call.brd)].stream].img.w
    /\ ret.path = "GetHeight" =>
          ret.val = stream[dec[getDecoder(ret.call.brd)].stream].img.h

C7_Witness ==
    /\ ret.path = "GetWidth"
    /\ ret.val = MaxDim
    /\ nCalls >= 2
    /\ \A t \in Threads : pc[t] = "idle"

\* C8: when a decodeRegion call returns null, the handle is live, holds
\* the live backend it was created with, and has the image's dimensions.
C8_FailureLeavesHandleUsable ==
    (ret.path \in {"DecodeFailed", "Cancelled"}) =>
        LET h == ret.call.brd IN
        /\ ret.kind = "null"
        /\ brd[h].st = "live"
        /\ getDecoder(h) = h
        /\ dec[h].st = "live"
        /\ dec[h].stream = h
        /\ getWidth(h) = stream[h].img.w
        /\ getHeight(h) = stream[h].img.h

\* A call made right after a failed call on the same handle succeeds.
C8_Witness == ret.path = "Success" /\ ret.call.afterFailure

\* C9: when a call given an Options object succeeds, the object's
\* outWidth, outHeight and outMimeType are the returned buffer's width and
\* height and the backend's format, for a new and for a reused buffer.
C9_WriteBack ==
    (ret.path = "Success" /\ ret.call.options # NULL) =>
        LET o == opts[ret.call.options] IN
        /\ o.outWidth = ret.w
        /\ o.outHeight = ret.h
        /\ o.outMimeType = "image/" \o dec[getDecoder(ret.call.brd)].fmt

C9_Witness ==
    /\ ret.path = "Success"
    /\ ret.kind = "tileBitmap"
    /\ ret.call.options # NULL
    /\ ret.w # ret.h
    /\ opts[ret.call.options].outWidth = ret.w

\* C10 as stated: every null return comes with a pending exception.
C10_Original_EveryFailureSignalled == ret.kind = "null" => ret.exc # "none"

\* C10 amended: a null return comes with a pending exception exactly on
\* the unsupported-format, index-build-failure and bad-descriptor paths;
\* an uncopyable stream or asset, a failed backend decode and a
\* cancellation return null with no exception pending.
C10_ExceptionOnlyFromCreateAndDescriptor ==
    ret.kind = "null" =>
        /\ ret.path \in {"UnsupportedFormat", "IndexBuildFailed",
                         "InvalidDescriptor", "NullDescriptor",
                         "StreamCopyFailed", "AssetCopyFailed",
                         "DecodeFailed", "Cancelled"}
        /\ ret.exc # "none" <=>
              ret.path \in {"UnsupportedFormat", "IndexBuildFailed",
                            "InvalidDescriptor", "NullDescriptor"}

C10_Witness == ret.path = "DecodeFailed" /\ ret.kind = "null" /\ ret.exc = "none"

\* C11: create returns a handle only when a backend recognised the stream
\* and its index build succeeded; an unrecognised stream is reported as
\* "Image format not supported" with no handle and no backend; a failed
\* index build is reported with the distinct message naming the format,
\* the selected backend has been deleted once, and there is no handle.
C11_CreateOutcomes ==
    /\ ret.kind = "brd" <=> ret.path = "Created"
    /\ ret.path = "Created" =>
          /\ ret.val = nStreams
          /\ stream[ret.val].img.fmt \in Formats
          /\ stream[ret.val].img.intact
          /\ brd[ret.val].st = "live"
          /\ dec[getDecoder(ret.val)].st = "live"
    /\ ret.path = "UnsupportedFormat" =>
          /\ stream[nStreams].img.fmt \notin Formats
          /\ ret.kind = "null"
          /\ ret.exc = "Image format not supported"
          /\ brd[nStreams].st = "none"
          /\ dec[nStreams].st = "none"
    /\ ret.path = "IndexBuildFailed" =>
          /\ stream[nStreams].img.fmt \in Formats
          /\ ~stream[nStreams].img.intact
          /\ ret.kind = "null"
          /\ ret.exc = "Image failed to decode using "
                          \o stream[nStreams].img.fmt \o " decoder"
          /\ ret.exc # "Image format not supported"
          /\ brd[nStreams].st = "none"
          /\ dec[nStreams].st = "deleted"
          /\ dec[nStreams].deletes = 1

C11_Witness ==
    /\ ret.path = "IndexBuildFailed"
    /\ ret.exc = "Image failed to decode using png decoder"
    /\ dec[nStreams].deletes = 1
    /\ brd[nStreams].st = "none"

\* C12: a backend selected by create is deleted at most once, and is
\* deleted exactly when create failed to build its index or its handle has
\* been destroyed; a live handle holds a non-null live backend; every
\* live backend is held by a live handle; no two handles hold the same
\* backend.
C12_BackendOwnedByOneHandle ==
    /\ \A d \in DOMAIN dec :
          /\ dec[d].deletes <= 1
          /\ dec[d].st = "deleted" <=> dec[d].deletes = 1
          /\ dec[d].st = "deleted" <=>
                \/ brd[d].st = "none" /\ d <= nStreams
                      /\ stream[d].img.fmt \in Formats /\ ~stream[d].img.intact
                \/ \E h \in DOMAIN brd :
                      brd[h].st = "deleted" /\ getDecoder(h) = d
          /\ dec[d].st = "live" =>
                \E h \in LiveHandles : getDecoder(h) = d
    /\ \A h \in LiveHandles :
          /\ getDecoder(h) # NULL
          /\ dec[getDecoder(h)].st = "live"
    /\ \A h1 \in DOMAIN brd, h2 \in DOMAIN brd :
          (h1 # h2 /\ brd[h1].st # "none" /\ brd[h2].st # "none") =>
              getDecoder(h1) # getDecoder(h2)

\* Two handles were created; one has been destroyed, and with it its
\* backend, once; the other is live with its own live backend.
C12_Witness ==
    \E h1 \in DOMAIN brd, h2 \in DOMAIN brd :
        /\ ret.path = "Clean"
        /\ brd[h1].st = "deleted"
        /\ dec[getDecoder(h1)].deletes = 1
        /\ brd[h2].st = "live"
        /\ dec[getDecoder(h2)].st = "live"
        /\ getDecoder(h1) # getDecoder(h2)

\* mCancel was set while the backend was decoding for t's call.
FlaggedInDecode(t) == pc[t] = "decoding" /\ hist[t].flaggedInDecode

\* C13 as stated: a call whose cancellation flag is set while the backend
\* is decoding eventually returns null, its registration removed.
C13_Original_FlagAborts ==
    \A t \in Threads :
        FlaggedInDecode(t) ~>
            (/\ DecodeReturned
             /\ ret.call.flaggedInDecode
             /\ ret.kind = "null"
             /\ \A r \in gAutoDecoderCancel : r.options # ret.call.options)

\* The requester's signal reached the backend while it was decoding for
\* t's call, which no other call on the handle has overlapped.
SignalledInDecode(t) ==
    /\ pc[t] = "decoding"
    /\ hist[t].signalled = "decoding"
    /\ ~hist[t].overlapped

\* C13 amended: once the requester's signal has reached the backend while
\* it is decoding for a call, the call eventually returns null through the
\* decode-failure path with its registration removed, unless another call
\* on the same handle overlaps it.
C13_SignalledDecodeAborts ==
    \A t \in Threads :
        SignalledInDecode(t) ~>
            \/ hist[t].overlapped
            \/ /\ ret.path = "DecodeFailed"
               /\ ret.call.signalled = "decoding"
               /\ ret.kind = "null"
               /\ \A r \in gAutoDecoderCancel : r.options # ret.call.options

C13_Witness ==
    /\ ret.path = "DecodeFailed"
    /\ ret.call.flaggedInDecode
    /\ ret.call.signalled = "decoding"
    /\ ~ret.call.overlapped
    /\ gAutoDecoderCancel = {}

\* The requester for the options of t's call has set the flag and sent
\* its signal.
RequestCompleted(t) ==
    loc[t].options # NULL /\ cpc[loc[t].options] = "done"

\* C14: a cancel request is not lost to the race with the pre-check: a
\* call about to run the pre-check after the flag was set sees the flag;
\* a call that passed the pre-check and whose request has completed had
\* its guard registered, so the signal reached its backend, and if the
\* request completed before decodeSubset is invoked (and no other call
\* shares the handle) the backend holds the signal at that moment; a
\* returned call whose request had completed either left through the
\* pre-check or had the signal delivered to its backend.
C14_CancelRequestNotLost ==
    /\ \A t \in Threads :
          /\ (pc[t] = "checkCancel" /\ loc[t].options # NULL
                  /\ cpc[loc[t].options] # "idle") => CancelRequested(t)
          /\ (pc[t] \in {"setSampleSize", "decodeSubset", "decoding"}
                  /\ RequestCompleted(t)) =>
                 /\ hist[t].signalled # "none"
                 /\ \E r \in gAutoDecoderCancel :
                       r.owner = t /\ r.options = loc[t].options
          /\ (pc[t] \in {"setSampleSize", "decodeSubset"}
                  /\ RequestCompleted(t) /\ ~hist[t].overlapped) =>
                 /\ hist[t].signalled = "before"
                 /\ dec[loc[t].decoder].cancel
    /\ (DecodeReturned /\ ret.call.options # NULL
            /\ cpc[ret.call.options] = "done") =>
          \/ ret.path = "Cancelled"
          \/ ret.call.signalled # "none"

\* The flag was set after the pre-check had passed; the signal found the
\* guard and reached the backend before decodeSubset was invoked.
C14_Witness ==
    \E t \in Threads :
        /\ pc[t] = "decodeSubset"
        /\ RequestCompleted(t)
        /\ ~hist[t].cancelAtEntry
        /\ hist[t].signalled = "before"
        /\ dec[loc[t].decoder].cancel

\* C15: a successful call given a reuse bitmap returns that bitmap, its
\* pixels marked changed, and creates no bitmap; a successful call given
\* none returns a newly created bitmap that is premultiplied exactly when
\* requireUnpremultiplied is false, i.e. when the request did not ask for
\* unpremultiplied output.
C15_ReuseOrFreshBitmap ==
    ret.path = "Success" =>
        IF ret.call.req.bitmap # NULL
        THEN /\ ret.kind = "tileBitmap"
             /\ ret.val = ret.call.req.bitmap
             /\ ret.pixelsChanged
             /\ ~ret.created
        ELSE /\ ret.kind = "bitmap"
             /\ ret.created
             /\ ~ret.pixelsChanged
             /\ ret.premul <=> ret.call.req.premultiplied

C15_Witness ==
    /\ ret.path = "Success"
    /\ ret.call.req.bitmap = 1
    /\ ret.val = 1
    /\ ret.pixelsChanged
    /\ ~ret.created

\* C16: when a call given an Options object returns null through the
\* pre-check or a failed decode, the object's outWidth and outHeight are
\* -1 and its outMimeType is null, whatever an earlier call had written.
C16_FailureResetsOutputs ==
    (ret.path \in {"Cancelled", "DecodeFailed"} /\ ret.call.options # NULL) =>
        LET o == opts[ret.call.options] IN
        /\ ret.kind = "null"
        /\ o.outWidth = -1
        /\ o.outHeight = -1
        /\ o.outMimeType = "null"

\* A call failed on an Options object that held a successful call's
\* output when it was entered.
C16_Witness ==
    /\ ret.path \in {"Cancelled", "DecodeFailed"}
    /\ ret.call.options # NULL
    /\ ret.call.outputsSet
    /\ opts[ret.call.options].outWidth = -1

\* A step of t's call, from its entry to its return, made with no Options
\* object.
StepWithoutOptions(t) ==
    /\ pc'[t] # pc[t]
    /\ IF pc[t] = "idle" THEN loc'[t].options = NULL
       ELSE loc[t].options = NULL

\* C17: a call given no Options object decodes with sample size 1, no
\* preferred colour type, dither on, quality preference off and
\* premultiplied output; it is never stopped by the pre-check, whatever
\* flag is set on any Options object; it has no reuse bitmap and returns a
\* newly created one; and no step of it writes to an Options object.
C17_DefaultsWithoutOptions ==
    /\ [](\A t \in Threads :
            (InFlight(t) /\ loc[t].options = NULL) =>
                /\ loc[t].sampleSize = 1
                /\ loc[t].prefColorType = "kUnknown"
                /\ loc[t].doDither
                /\ ~loc[t].preferQualityOverSpeed
                /\ ~loc[t].requireUnpremultiplied
                /\ loc[t].tileBitmap = NULL
                /\ ~CancelRequested(t)
                /\ (~hist[t].overlapped /\ pc[t] \in
                        {"adc", "checkCancel", "setSampleSize",
                         "decodeSubset", "decoding"}) =>
                       /\ dec[loc[t].decoder].dither
                       /\ ~dec[loc[t].decoder].quality
                       /\ ~dec[loc[t].decoder].unpremul
                /\ (~hist[t].overlapped /\ pc[t] \in {"decodeSubset", "decoding"}) =>
                       dec[loc[t].decoder].sampleSize = 1)
    /\ []((DecodeReturned /\ ret.call.options = NULL) =>
            /\ ret.path # "Cancelled"
            /\ ret.path = "Success" =>
                  /\ ret.kind = "bitmap"
                  /\ ret.created
                  /\ ret.premul
                  /\ ~ret.call.overlapped =>
                        /\ ret.w = getWidth(ret.call.brd)
                        /\ ret.h = getHeight(ret.call.brd))
    /\ [][\A t \in Threads : StepWithoutOptions(t) => opts' = opts]_vars

\* A call without options has returned a new full-size premultiplied
\* bitmap on a backend an earlier call had set to sample size 2, while
\* mCancel was set on the Options object and that object's fields stayed
\* as the earlier call left them.
C17_Witness ==
    /\ ret.path = "Success"
    /\ ret.call.options = NULL
    /\ ~ret.call.overlapped
    /\ nCalls >= 2
    /\ ret.kind = "bitmap"
    /\ ret.premul
    /\ ret.w = MaxDim
    /\ \E o \in OptionIds : opts[o].mCancel /\ opts[o].outMimeType # "unset"

\* C18: the rectangle handed to the backend has left = start_x,
\* top = start_y, right = start_x + width and bottom = start_y + height as
\* the code's int addition computes them (the exact sums whenever they are
\* representable); nothing is clamped to the image, and the only requests
\* that do not reach the backend are those whose addition overflowed and
\* trapped: none is turned away for being out of bounds or degenerate.
C18_RegionHandedUnclamped ==
    /\ region.pc = "handed" =>
          /\ region.rect.fLeft = region.start_x
          /\ region.rect.fTop = region.start_y
          /\ region.rect.fRight = WrapAdd(region.start_x, region.width)
          /\ region.rect.fBottom = WrapAdd(region.start_y, region.height)
          /\ ~AddOverflows(region.start_x, region.width) =>
                region.rect.fRight = region.start_x + region.width
          /\ ~AddOverflows(region.start_y, region.height) =>
                region.rect.fBottom = region.start_y + region.height
    /\ region.pc \in {"entry", "computed", "handed", "trapped"}
    /\ region.pc = "trapped" =>
          \/ AddOverflows(region.start_x, region.width)
          \/ AddOverflows(region.start_y, region.height)

\* A rectangle that starts left of the image, is degenerate in x, and
\* ends below every image has been handed to the backend as it is.
C18_Witness ==
    /\ region.pc = "handed"
    /\ region.start_x = -1
    /\ region.width = -1
    /\ region.rect.fLeft = -1
    /\ region.rect.fRight = -2
    /\ region.rect.fTop = 1
    /\ region.rect.fBottom = MaxDim + 2

\* C19 as stated: for non-negative width and height the rectangle handed
\* to the backend has right >= left and bottom >= top.
C19_Original_NoWrap ==
    (region.pc = "handed" /\ region.width >= 0 /\ region.height >= 0) =>
        /\ region.rect.fRight >= region.rect.fLeft
        /\ region.rect.fBottom >= region.rect.fTop

\* A request with non-negative width and height whose bottom edge wrapped
\* around and was handed to the backend above its top edge.
C19_Witness ==
    /\ region.pc = "handed"
    /\ region.start_y = INT32_MAX
    /\ region.height = 1
    /\ region.width >= 0
    /\ region.rect.fTop = INT32_MAX
    /\ region.rect.fBottom = INT32_MIN
====
